---- MODULE Spec2Model ----
(***************************************************************************)
(* The incremental merge of merge_arkk_data.py: a run of                   *)
(* merge_holdings_data() reads the wide constituents table from disk,      *)
(* folds the pending holdings snapshots into it one file at a time and     *)
(* writes it back once.  Data frames are modelled as a sequence of column  *)
(* names plus a sequence of rows; a cell is a number or NaN.  Weights are  *)
(* counted in tenths of a percent (45 is 4.5).                             *)
(***************************************************************************)
EXTENDS Integers, Sequences, FiniteSets, TLC

\* Bounds of the model.
MaxRows == 2
MaxFiles == 2
MaxRuns == 2

---------------------------------------------------------------------------
\* Cells of a data frame.
NaN == [isna |-> TRUE, val |-> 0]
Num(v) == [isna |-> FALSE, val |-> v]

\* The tickers the snapshots may name; "" is a blank ticker cell.
Tickers == {"AAPL", "TSLA"}
TickerCells == Tickers \cup {""}

\* Weight cells as they stand in a holdings file: "4.5%", "2.0" and "n/a%".
WeightCells ==
    { [kind |-> "num", val |-> 45, pct |-> 1],
      [kind |-> "num", val |-> 20, pct |-> 0],
      [kind |-> "text", val |-> 0, pct |-> 1] }

\* The 'date' cell of the first data row: MM/DD/YYYY (the month 13 is no date),
\* other text, or no first row at all.
DateFields ==
    { [kind |-> "mdy", m |-> 1, d |-> 1, y |-> 2025],
      [kind |-> "mdy", m |-> 1, d |-> 2, y |-> 2025],
      [kind |-> "mdy", m |-> 1, d |-> 3, y |-> 2025],
      [kind |-> "mdy", m |-> 13, d |-> 1, y |-> 2025],
      [kind |-> "text", m |-> 0, d |-> 0, y |-> 0],
      [kind |-> "norow", m |-> 0, d |-> 0, y |-> 0] }

\* The file has no 'date' column.
NoDateColumn == [kind |-> "absent", m |-> 0, d |-> 0, y |-> 0]

\* The header of a holdings file: complete, or lacking one column.
AllColumns == {"date", "ticker", "weight (%)"}
Headers == {AllColumns} \cup {AllColumns \ {c} : c \in AllColumns}

\* The data rows of a holdings file.
RowLists ==
    UNION { [1..n -> [ticker : TickerCells, weight : WeightCells]] : n \in 1..MaxRows }

---------------------------------------------------------------------------
\* Data frames.
EmptyFrame == [columns |-> <<>>, rows |-> <<>>]

ColSet(df) == {df.columns[i] : i \in DOMAIN df.columns}

TickerSeq(df) == [i \in DOMAIN df.rows |-> df.rows[i].ticker]

TickerSet(df) == {df.rows[i].ticker : i \in DOMAIN df.rows}

HasDuplicates(s) == \E i, j \in DOMAIN s : i # j /\ s[i] = s[j]

Extend(w, cols, v) == [c \in (DOMAIN w) \cup cols |-> IF c \in DOMAIN w THEN w[c] ELSE v]

\* The orders in which a Python set may be iterated.
Orderings(S) ==
    {s \in [1..Cardinality(S) -> S] : \A i, j \in 1..Cardinality(S) : i # j => s[i] # s[j]}

---------------------------------------------------------------------------
\* The constituents file on disk (CSV text: a blank field or a number).
ReadField(f) == IF f = <<>> THEN NaN ELSE Num(f[1])

WriteField(c) == IF c.isna THEN <<>> ELSE <<c.val>>

read_csv(file) ==
    [columns |-> file.columns,
     rows |-> [i \in DOMAIN file.rows |->
        [ticker |-> file.rows[i].first,
         w |-> [c \in {file.columns[j] : j \in 2..Len(file.columns)} |->
                  ReadField(file.rows[i].rest[
                      (CHOOSE j \in 2..Len(file.columns) : file.columns[j] = c) - 1])]]]]

to_csv(df) ==
    [exists |-> TRUE,
     columns |-> df.columns,
     rows |-> [i \in DOMAIN df.rows |->
        [first |-> df.rows[i].ticker,
         rest |-> [j \in 1..(Len(df.columns) - 1) |->
                     WriteField(df.rows[i].w[df.columns[j + 1]])]]]]

NoFile == [exists |-> FALSE, columns |-> <<>>, rows |-> <<>>]

InitialFiles ==
    { NoFile,
      [exists |-> TRUE, columns |-> <<"ticker", "20250101">>,
       rows |-> << [first |-> "AAPL", rest |-> << <<50>> >>] >>],
      [exists |-> TRUE, columns |-> <<"symbol", "20250101">>,
       rows |-> << [first |-> "AAPL", rest |-> << <<50>> >>] >>] }

---------------------------------------------------------------------------
\* extract_date_from_holdings: "" stands for None.
DaysInMonth(m, y) ==
    IF m \in {4, 6, 9, 11} THEN 30
    ELSE IF m = 2 THEN (IF (y % 4 = 0 /\ y % 100 # 0) \/ y % 400 = 0 THEN 29 ELSE 28)
    ELSE 31

strptime_ok(date) ==
    /\ date.kind = "mdy"
    /\ date.m \in 1..12
    /\ date.d \in 1..DaysInMonth(date.m, date.y)
    /\ date.y \in 1..9999

Pad2(n) == IF n < 10 THEN "0" \o ToString(n) ELSE ToString(n)

\* A mutant of strftime: the format is '%Y%d%m'.
strftime_ydm(date) == ToString(date.y) \o Pad2(date.d) \o Pad2(date.m)

strftime(date) == ToString(date.y) \o Pad2(date.m) \o Pad2(date.d)

extract_date_from_holdings(header, date) ==
    IF date.kind = "norow" THEN ""
    ELSE IF "date" \notin header THEN ""
    ELSE IF ~strptime_ok(date) THEN ""
    ELSE strftime(date)

---------------------------------------------------------------------------
\* Lines 94-100: the ticker and weight columns of the snapshot.
notna_rows(rows) == SelectSeq(rows, LAMBDA r : r.ticker # "")

\* astype(str).str.rstrip('%').astype(float) on one cell.
float_ok(cell) == cell.kind = "num" \/ (cell.kind = "blank" /\ cell.pct = 0)

to_float(cell) == IF cell.kind = "num" THEN Num(cell.val) ELSE NaN

weights_ok(rows) ==
    LET kept == notna_rows(rows) IN \A i \in DOMAIN kept : float_ok(kept[i].weight)

weights_frame(rows, dc) ==
    LET kept == notna_rows(rows)
    IN  [columns |-> <<"ticker", dc>>,
         rows |-> [i \in DOMAIN kept |->
            [ticker |-> kept[i].ticker, w |-> [c \in {dc} |-> to_float(kept[i].weight)]]]]

\* Lines 102-120: the rows of the new tickers and pd.concat.
\* A mutant of new_tickers: the tickers already in the table are not removed.
new_tickers_all(df, dfw) == TickerSet(dfw)

new_tickers(df, dfw) == TickerSet(dfw) \ TickerSet(df)

\* A mutant of new_rows: the existing columns of a new row are left unset.
new_rows_unset(df, dc, order) ==
    [columns |-> <<"ticker", dc>>,
     rows |-> [k \in DOMAIN order |-> [ticker |-> order[k], w |-> [c \in {dc} |-> Num(0)]]]]

new_rows(df, dc, order) ==
    [columns |-> <<"ticker">> \o SelectSeq(df.columns, LAMBDA c : c # "ticker") \o <<dc>>,
     rows |-> [k \in DOMAIN order |->
        [ticker |-> order[k],
         w |-> [c \in (ColSet(df) \ {"ticker"}) \cup {dc} |-> Num(0)]]]]

concat(a, b) ==
    LET added == SelectSeq(b.columns, LAMBDA c : c \notin ColSet(a))
        all == (ColSet(a) \cup ColSet(b)) \ {"ticker"}
    IN  [columns |-> a.columns \o added,
         rows |-> [i \in DOMAIN a.rows |->
                     [ticker |-> a.rows[i].ticker, w |-> Extend(a.rows[i].w, all, NaN)]]
                  \o [i \in DOMAIN b.rows |->
                     [ticker |-> b.rows[i].ticker, w |-> Extend(b.rows[i].w, all, NaN)]]]

with_new_tickers(df, dfw, dc, order) ==
    IF new_tickers(df, dfw) # {} THEN concat(df, new_rows(df, dc, order)) ELSE df

\* Lines 124-135: set_index, the zero column, update, reset_index.
set_index(df) ==
    [index |-> TickerSeq(df),
     columns |-> SelectSeq(df.columns, LAMBDA c : c # "ticker"),
     data |-> [i \in DOMAIN df.rows |-> df.rows[i].w]]

reset_index(ix) ==
    [columns |-> <<"ticker">> \o ix.columns,
     rows |-> [i \in DOMAIN ix.index |-> [ticker |-> ix.index[i], w |-> ix.data[i]]]]

\* A mutant of init_date_column: the zero is written to every column.
init_date_column_all(ix, dc) ==
    [ix EXCEPT !.columns = IF dc \in {@[j] : j \in DOMAIN @} THEN @ ELSE @ \o <<dc>>,
               !.data = [i \in DOMAIN @ |-> [c \in (DOMAIN @[i]) \cup {dc} |-> Num(0)]]]

\* A mutant of init_date_column: the new column is put in front.
init_date_column_front(ix, dc) ==
    IF dc \notin {ix.columns[j] : j \in DOMAIN ix.columns}
    THEN [ix EXCEPT !.columns = <<dc>> \o @,
                    !.data = [i \in DOMAIN @ |-> Extend(@[i], {dc}, Num(0))]]
    ELSE ix

init_date_column(ix, dc) ==
    IF dc \notin {ix.columns[j] : j \in DOMAIN ix.columns}
    THEN [ix EXCEPT !.columns = @ \o <<dc>>,
                    !.data = [i \in DOMAIN @ |-> Extend(@[i], {dc}, Num(0))]]
    ELSE ix

update_raises(other) == HasDuplicates(other.index)

update(self, other) ==
    LET common == {self.columns[j] : j \in DOMAIN self.columns}
                  \cap {other.columns[j] : j \in DOMAIN other.columns}
        that(i, c) ==
            IF \E k \in DOMAIN other.index : other.index[k] = self.index[i]
            THEN other.data[CHOOSE k \in DOMAIN other.index :
                                other.index[k] = self.index[i]][c]
            ELSE NaN
    IN  [self EXCEPT !.data = [i \in DOMAIN @ |->
            [c \in DOMAIN @[i] |->
                IF c \in common
                THEN LET v == that(i, c) IN IF v.isna THEN @[i][c] ELSE v
                ELSE @[i][c]]]]

merged_frame(df, dfw, dc) ==
    reset_index(update(init_date_column(set_index(df), dc), set_index(dfw)))

---------------------------------------------------------------------------
\* Line 44: os.path.exists(constituents_file).
\* A mutant of table_exists: the file is not looked for.
table_exists_always(file) == TRUE

table_exists(file) == file.exists

\* Lines 58 and 70: glob.glob names the files (here by their numbers) in any
\* order, and the loop runs over sorted(holdings_files).
RECURSIVE insert_sorted(_, _)
insert_sorted(s, x) ==
    IF s = <<>> THEN <<x>>
    ELSE IF x <= Head(s) THEN <<x>> \o s
    ELSE <<Head(s)>> \o insert_sorted(Tail(s), x)

\* A mutant of sorted: the list is left in the order of glob.
sorted_not(files) == files

RECURSIVE sorted(_)
sorted(files) ==
    IF files = <<>> THEN <<>> ELSE insert_sorted(sorted(Tail(files)), Head(files))

\* Lines 78-79 and 88-89: the two guards of an iteration.
\* A mutant of date_exists: the guard is missing.
date_exists_never(df, dc) == FALSE

date_exists(df, dc) == dc \in ColSet(df)

\* A mutant of has_required_columns: the weight column is not looked for.
has_required_columns_ticker(header) == "ticker" \in header

has_required_columns(header) == {"ticker", "weight (%)"} \subseteq header

---------------------------------------------------------------------------
VARIABLES
    disk,             \* arkk_constituents.csv
    pc,               \* "start", "loop" or "done"
    run,              \* the number of the run
    df_constituents,  \* the table in memory
    holdings_count,   \* len(holdings_files)
    sorted_files,     \* sorted(holdings_files)
    holdings_file,    \* the file processed last, 0 before the first
    first_date,       \* the 'date' cell of its first data row
    merged_files,     \* the files merged in this run, in order
    idx,              \* files of the sorted list already processed
    changes_made,
    holdings_columns, \* the header of the file read last at line 86
    date_col,         \* the date of the file processed last
    df_weights,       \* the weights of the file processed last
    before,           \* df_constituents at the start of the last iteration
    merged,           \* the date columns merged in this run, in order
    console,          \* the message printed last
    skipped_existing, \* files of this run skipped because their date exists
    exit_code,        \* the exit code, -1 while the run goes on
    table_reads,      \* reads of the table file in this run
    table_writes      \* writes of the table file in this run

vars == <<disk, pc, run, df_constituents, holdings_count, sorted_files, holdings_file,
          first_date, merged_files, idx, changes_made,
          holdings_columns, date_col, df_weights, before, merged, console,
          skipped_existing, exit_code, table_reads, table_writes>>

Init ==
    /\ disk \in InitialFiles
    /\ pc = "start"
    /\ run = 1
    /\ df_constituents = EmptyFrame
    /\ holdings_count = 0
    /\ sorted_files = <<>>
    /\ holdings_file = 0
    /\ first_date = NoDateColumn
    /\ merged_files = <<>>
    /\ idx = 0
    /\ changes_made = FALSE
    /\ holdings_columns = {}
    /\ date_col = ""
    /\ df_weights = EmptyFrame
    /\ before = EmptyFrame
    /\ merged = <<>>
    /\ console = ""
    /\ skipped_existing = 0
    /\ exit_code = -1
    /\ table_reads = 0
    /\ table_writes = 0

\* Lines 41-67 (and 155-158 when the function returns False).
Start ==
    /\ pc = "start"
    /\ UNCHANGED <<disk, run, idx, changes_made, holdings_columns, date_col, df_weights,
                   before, merged, skipped_existing, table_writes, holdings_file,
                   first_date, merged_files>>
    /\ IF ~table_exists(disk)
       THEN /\ console' = "not found"
            /\ pc' = "done"
            /\ exit_code' = 1
            /\ UNCHANGED <<df_constituents, holdings_count, sorted_files, table_reads>>
       ELSE /\ df_constituents' = read_csv(disk)
            /\ table_reads' = table_reads + 1
            /\ IF "ticker" \notin ColSet(read_csv(disk))
               THEN /\ console' = "no ticker column"
                    /\ pc' = "done"
                    /\ exit_code' = 1
                    /\ UNCHANGED <<holdings_count, sorted_files>>
               ELSE \E n \in 0..MaxFiles : \E holdings_files \in Orderings(1..n) :
                    /\ holdings_count' = n
                    /\ sorted_files' = sorted(holdings_files)
                    /\ IF n = 0
                       THEN /\ console' = "no files"
                            /\ pc' = "done"
                            /\ exit_code' = 1
                       ELSE /\ console' = "found files"
                            /\ pc' = "loop"
                            /\ UNCHANGED exit_code

\* A 'continue' of the loop.
Skip(message) ==
    /\ console' = message
    /\ skipped_existing' = skipped_existing + (IF message = "date exists" THEN 1 ELSE 0)
    /\ idx' = idx + 1
    /\ UNCHANGED <<df_constituents, df_weights, changes_made, merged, merged_files, pc,
                   exit_code>>

\* An exception leaves merge_holdings_data and is caught at lines 159-163.
Raise(message, df) ==
    /\ console' = message
    /\ df_constituents' = df
    /\ pc' = "done"
    /\ exit_code' = 1
    /\ UNCHANGED <<idx, changes_made, merged, merged_files, skipped_existing>>

\* Lines 70-142: one iteration of the loop over sorted(holdings_files).
ProcessFile ==
    /\ pc = "loop"
    /\ idx < holdings_count
    /\ before' = df_constituents
    /\ holdings_file' = sorted_files[idx + 1]
    /\ UNCHANGED <<disk, run, holdings_count, sorted_files, table_reads, table_writes>>
    /\ \E header \in Headers, date \in DateFields :
       LET dc == extract_date_from_holdings(header, date) IN
       /\ first_date' = IF "date" \in header THEN date ELSE NoDateColumn
       /\ date_col' = dc
       /\ IF dc = ""
          THEN Skip("no date") /\ UNCHANGED holdings_columns
          ELSE IF date_exists(df_constituents, dc)
          THEN Skip("date exists") /\ UNCHANGED holdings_columns
          ELSE
          /\ holdings_columns' = header
          /\ IF ~has_required_columns(header)
             THEN Skip("missing columns")
             ELSE \E rows \in RowLists :
                  IF ~weights_ok(rows)
                  THEN /\ Raise("could not convert string to float", df_constituents)
                       /\ UNCHANGED df_weights
                  ELSE LET dfw == weights_frame(rows, dc) IN
                       /\ df_weights' = dfw
                       /\ \E order \in Orderings(new_tickers(df_constituents, dfw)) :
                          LET df == with_new_tickers(df_constituents, dfw, dc, order) IN
                          IF update_raises(set_index(dfw))
                          THEN Raise("cannot reindex on an axis with duplicate labels", df)
                          ELSE /\ df_constituents' = merged_frame(df, dfw, dc)
                               /\ console' = "matched"
                               /\ changes_made' = TRUE
                               /\ merged' = Append(merged, dc)
                               /\ merged_files' = Append(merged_files, sorted_files[idx + 1])
                               /\ idx' = idx + 1
                               /\ UNCHANGED <<pc, exit_code, skipped_existing>>

\* Lines 144-153 and 155-158.
Finish ==
    /\ pc = "loop"
    /\ idx = holdings_count
    /\ pc' = "done"
    /\ UNCHANGED <<run, df_constituents, holdings_count, sorted_files, holdings_file,
                   first_date, merged_files, idx, changes_made,
                   holdings_columns, date_col, df_weights, before, merged,
                   skipped_existing, table_reads>>
    /\ IF changes_made
       THEN /\ disk' = to_csv(df_constituents)
            /\ table_writes' = table_writes + 1
            /\ console' = "updated"
            /\ exit_code' = 0
       ELSE /\ console' = "no changes"
            /\ exit_code' = 1
            /\ UNCHANGED <<disk, table_writes>>

\* The script is started again on the files then present.
NewRun ==
    /\ pc = "done"
    /\ run < MaxRuns
    /\ run' = run + 1
    /\ pc' = "start"
    /\ df_constituents' = EmptyFrame
    /\ holdings_count' = 0
    /\ sorted_files' = <<>>
    /\ holdings_file' = 0
    /\ first_date' = NoDateColumn
    /\ merged_files' = <<>>
    /\ idx' = 0
    /\ changes_made' = FALSE
    /\ holdings_columns' = {}
    /\ date_col' = ""
    /\ df_weights' = EmptyFrame
    /\ before' = EmptyFrame
    /\ merged' = <<>>
    /\ console' = ""
    /\ skipped_existing' = 0
    /\ exit_code' = -1
    /\ table_reads' = 0
    /\ table_writes' = 0
    /\ UNCHANGED disk

Next == Start \/ ProcessFile \/ Finish \/ NewRun

Spec == Init /\ [][Next]_vars

---------------------------------------------------------------------------
\* The cell of ticker t in column c, and where the run stands.
RowOf(df, t) == CHOOSE i \in DOMAIN df.rows : df.rows[i].ticker = t

Cell(df, t, c) == df.rows[RowOf(df, t)].w[c]

DiskTickers == [i \in DOMAIN disk.rows |-> disk.rows[i].first]

Rectangular(df) ==
    \A i \in DOMAIN df.rows :
        /\ df.rows[i].ticker # ""
        /\ \A c \in ColSet(df) \ {"ticker"} :
              c \in DOMAIN df.rows[i].w /\ ~df.rows[i].w[c].isna

\* C1: after the merge of a snapshot for a new date D, every ticker that was
\* in the table and is absent from the snapshot holds 0 in column D, and every
\* ticker of the snapshot holds the snapshot's weight in column D.
C1_SentinelCorrectness ==
    console = "matched" =>
        /\ \A t \in TickerSet(before) \ TickerSet(df_weights) :
              Cell(df_constituents, t, date_col) = Num(0)
        /\ \A t \in TickerSet(df_weights) :
              Cell(df_constituents, t, date_col) = Cell(df_weights, t, date_col)

\* C2: after every successful merge every row of the table has a value that is
\* not null in every column.
C2_Rectangularity == console = "matched" => Rectangular(df_constituents)

\* C3: a snapshot whose date column is already in the table is skipped and
\* leaves the table as it was, in the batch that merged it and in a later run.
C3_Idempotence ==
    (date_col # "" /\ date_col \in ColSet(before)) =>
        /\ df_constituents = before
        /\ console \in {"date exists", "updated", "no changes"}

C3_Witness == run = 2 /\ console = "date exists" /\ date_col = "20250102"

\* C4: an iteration of the loop leaves every cell of the rows and columns the
\* table had before it as it was, and adds no column but the new date column.
C4_ConservationOfHistory ==
    /\ Len(df_constituents.rows) >= Len(before.rows)
    /\ \A i \in DOMAIN before.rows :
          /\ df_constituents.rows[i].ticker = before.rows[i].ticker
          /\ \A c \in DOMAIN before.rows[i].w :
                df_constituents.rows[i].w[c] = before.rows[i].w[c]
    /\ before # EmptyFrame =>
          /\ ColSet(before) \subseteq ColSet(df_constituents)
          /\ ColSet(df_constituents) \subseteq ColSet(before) \cup {date_col}

C4_Witness ==
    /\ console = "matched"
    /\ Len(before.columns) = 3
    /\ Len(df_constituents.rows) > Len(before.rows)
    /\ before.rows[1].w["20250101"] = Num(50)

\* C5: the ticker column of the table, in memory and on disk, never holds the
\* same ticker twice.
C5_TickerUniqueness ==
    /\ ~HasDuplicates(TickerSeq(df_constituents))
    /\ ~HasDuplicates(DiskTickers)

C5_Witness ==
    /\ HasDuplicates(TickerSeq(df_weights))
    /\ df_weights.columns = <<"ticker", date_col>>
    /\ "TSLA" \in TickerSet(df_constituents) \ TickerSet(before)

\* C6: a ticker of the snapshot that was not in the table is appended as one
\* new row with 0 in every column the table had and its weight in the new
\* date column.
C6_NewTickerBackfill ==
    console = "matched" =>
        \A t \in TickerSet(df_weights) \ TickerSet(before) :
            /\ Cardinality({i \in DOMAIN df_constituents.rows :
                               df_constituents.rows[i].ticker = t}) = 1
            /\ RowOf(df_constituents, t) > Len(before.rows)
            /\ \A c \in ColSet(before) \ {"ticker"} : Cell(df_constituents, t, c) = Num(0)
            /\ Cell(df_constituents, t, date_col) = Cell(df_weights, t, date_col)

\* The scenario of the specification: {AAPL: 5.0} merged with {AAPL: 4.5, TSLA: 2.0}.
C6_Witness ==
    /\ console = "matched"
    /\ before.columns = <<"ticker", "20250101">>
    /\ df_constituents =
          [columns |-> <<"ticker", "20250101", "20250102">>,
           rows |-> << [ticker |-> "AAPL",
                        w |-> [c \in {"20250101", "20250102"} |->
                                 IF c = "20250101" THEN Num(50) ELSE Num(45)]],
                       [ticker |-> "TSLA",
                        w |-> [c \in {"20250101", "20250102"} |->
                                 IF c = "20250101" THEN Num(0) ELSE Num(20)]] >>]

\* C7: a snapshot with a new date that lacks the ticker or the weight column
\* is skipped, the table stays as it was, and the loop goes on.
C7_SchemaIsolation ==
    (date_col # "" /\ date_col \notin ColSet(before)
        /\ ~({"ticker", "weight (%)"} \subseteq holdings_columns)) =>
        /\ df_constituents = before
        /\ console \in {"missing columns", "updated", "no changes"}
        /\ console = "missing columns" => (pc = "loop" /\ exit_code = -1)

C7_Witness ==
    /\ console = "missing columns"
    /\ "weight (%)" \notin holdings_columns
    /\ idx < holdings_count

\* C8: a snapshot with a weight that is no number is skipped, the table stays
\* as it was, and the loop goes on with the remaining files.
C8_ParseIsolation ==
    console = "could not convert string to float" =>
        (df_constituents = before /\ pc = "loop" /\ exit_code = -1)

\* C9: at the end of a run in which a file failed, every date column merged
\* earlier in the run is in the table on disk.
C9_NoRollback ==
    (pc = "done" /\ console \in {"updated", "no changes",
                                 "could not convert string to float"}) =>
        \A i \in DOMAIN merged : merged[i] \in {disk.columns[j] : j \in DOMAIN disk.columns}

\* C10: a run that applies changes and a run that finds every pending date
\* already in the table exit with 0; a run without table, without files or
\* with a parse error exits with another code.
C10_ExitContract ==
    pc = "done" =>
        /\ console = "updated" => exit_code = 0
        /\ (console = "no changes" /\ skipped_existing = holdings_count) => exit_code = 0
        /\ console \in {"not found", "no files", "could not convert string to float"}
              => exit_code # 0

\* The weight of the last row of the snapshot that names ticker t.
LastWeight(dfw, t, c) ==
    dfw.rows[CHOOSE i \in DOMAIN dfw.rows :
                /\ dfw.rows[i].ticker = t
                /\ \A j \in DOMAIN dfw.rows : dfw.rows[j].ticker = t => j <= i].w[c]

\* C11: a snapshot that names a ticker twice is merged, the table has one row
\* for that ticker, and its cell in the new date column is the weight of the
\* later of the two rows.
C11_LastWriteWins ==
    (HasDuplicates(TickerSeq(df_weights)) /\ df_weights.columns = <<"ticker", date_col>>) =>
        /\ console \in {"matched", "updated"}
        /\ \A t \in TickerSet(df_weights) :
              /\ Cardinality({i \in DOMAIN df_constituents.rows :
                                 df_constituents.rows[i].ticker = t}) = 1
              /\ Cell(df_constituents, t, date_col) = LastWeight(df_weights, t, date_col)

\* C12: after a merge the ticker column is first, the columns the table had
\* stand in the order they had, and the new date column is last; no iteration
\* removes a column.
C12_ColumnOrder ==
    /\ console = "matched" =>
          /\ df_constituents.columns[1] = "ticker"
          /\ df_constituents.columns = before.columns \o <<date_col>>
    /\ before # EmptyFrame =>
          \A c \in ColSet(before) : c \in ColSet(df_constituents)

C12_Witness ==
    /\ console = "matched"
    /\ df_constituents.columns = <<"ticker", "20250101", "20250103", "20250102">>
    /\ Len(df_constituents.rows) > Len(before.rows)

\* C14: without the table file the run ends at once with exit code 1: no
\* snapshot is read, the table file is neither read nor written, and it is
\* still absent.
C14_MissingTableFatal ==
    (~disk.exists /\ pc # "start") =>
        /\ pc = "done"
        /\ console = "not found"
        /\ exit_code = 1
        /\ idx = 0
        /\ holdings_columns = {}
        /\ table_reads = 0
        /\ table_writes = 0

C14_Witness == ~disk.exists /\ run = 2 /\ console = "not found" /\ exit_code = 1

\* C15: in a run the table file is read once before the first snapshot, is
\* written at most once and only after the last file, and at the end of the
\* run it has been written exactly when a snapshot was merged in the run.
C15_SinglePersist ==
    /\ table_reads <= 1
    /\ table_writes <= 1
    /\ idx > 0 => table_reads = 1
    /\ table_writes = 1 => (pc = "done" /\ idx = holdings_count)
    /\ pc = "done" => (table_writes = 1 <=> merged # <<>>)

\* C13: a 'date' cell MM/DD/YYYY in the first data row gives the date column
\* YYYYMMDD; a file without that cell, or with a cell that is no such date,
\* gives no date, is skipped with the table as it was, and the loop goes on.
C13_DateExtraction ==
    holdings_file # 0 =>
        IF first_date.kind = "mdy" /\ first_date.m \in 1..12
        THEN /\ first_date = [kind |-> "mdy", m |-> 1, d |-> 1, y |-> 2025]
                   => date_col = "20250101"
             /\ first_date = [kind |-> "mdy", m |-> 1, d |-> 2, y |-> 2025]
                   => date_col = "20250102"
             /\ first_date = [kind |-> "mdy", m |-> 1, d |-> 3, y |-> 2025]
                   => date_col = "20250103"
             /\ date_col # ""
        ELSE /\ date_col = ""
             /\ df_constituents = before
             /\ console \in {"no date", "updated", "no changes"}
             /\ console = "no date" => (pc = "loop" /\ exit_code = -1)

C13_Witness ==
    /\ console = "no date"
    /\ first_date.kind = "mdy"
    /\ first_date.m = 13
    /\ merged = <<"20250102">>
    /\ df_constituents = before

\* C16 as stated: the loop takes the files in ascending order of their names,
\* and whenever two files of a batch resolve to the same date the later one is
\* skipped with the table as it was and contributes nothing.  Here the two
\* files are consecutive and the later iteration runs to its end.
C16_LaterFileSkipped ==
    [][(/\ pc = "loop"
        /\ idx >= 1
        /\ idx' = idx + 1
        /\ date_col # ""
        /\ date_col' = date_col)
       => (/\ df_constituents' = df_constituents
           /\ merged_files' = merged_files)]_vars

\* C16 as amended: the loop takes the files in ascending order of their names;
\* a file that resolves to a date merged from an earlier file of the batch is
\* skipped as a duplicate date with the table as it was, and the date column
\* holds the weights of the earlier file.
C16_SortedOrder ==
    /\ \A i, j \in DOMAIN sorted_files : i < j => sorted_files[i] < sorted_files[j]
    /\ \A i, j \in DOMAIN merged_files : i < j => merged_files[i] < merged_files[j]
    /\ (/\ date_col # ""
        /\ \E k \in DOMAIN merged :
              merged[k] = date_col /\ merged_files[k] < holdings_file)
       => /\ df_constituents = before
          /\ skipped_existing >= 1
          /\ pc = "loop" => console = "date exists"
          /\ merged[Len(merged)] = date_col =>
                \A t \in TickerSet(df_weights) :
                    Cell(df_constituents, t, date_col) = Cell(df_weights, t, date_col)

C16_Witness ==
    /\ console = "date exists"
    /\ merged = <<date_col>>
    /\ merged_files = <<1>>
    /\ holdings_file = 2

====
